---- MODULE Spec2Model ----
(***************************************************************************)
(* Model of comfy's animated sprite (src/comfy/src/animated_sprite.rs):    *)
(* the builder, the animation catalog with play / set_animations, the      *)
(* playback clock update_and_finished, progress and the frame source       *)
(* resolver current_rect with its texture size provider.                   *)
(*                                                                         *)
(* Time is counted in integer ticks: a timer, a delta and a frame_time are *)
(* whole numbers of ticks, so the f32 sums and quotients of the source are *)
(* exact (the values used are small integers, which f32 represents         *)
(* exactly).  `x as i32` truncates toward zero and `%` is Rust's           *)
(* remainder, whose sign follows the dividend.                             *)
(***************************************************************************)
EXTENDS Integers, Sequences, FiniteSets, TLC

VARIABLES
    phase,       \* "builder": an AnimatedSpriteBuilder; "sprite": the built AnimatedSprite
    animations,  \* the catalog, HashMap<String, Animation>: a function on the stored names
    state,       \* the active AnimationState; None in a builder before the first animation
    panic,       \* "none", or the message of the panic that ended the run
    call,        \* the most recent call: its operation and arguments, and the
                 \* name of the animation that was active when it was made
    finished,    \* <<>>, or <<b>>: what update_and_finished last returned on this state
    image_size,  \* what Assets::image_size answers now (the texture size provider)
    drawn,       \* the last two results of current_rect, the newest first
    errors       \* the texture names reported with error!()

\* the variables of the resolver and of its collaborators
resolver == <<image_size, drawn, errors>>

vars == <<phase, animations, state, panic, call, finished, image_size, drawn, errors>>

\* ------------------------------------------------------------------ bounds

\* update_and_finished is not called once the timer would exceed MaxTimer
MaxTimer == 9
\* the largest delta of one update_and_finished call
MaxDelta == 6
\* the longest list handed to with_animations / set_animations
MaxAnims == 2
\* with_timer is called with -MaxOffset .. MaxOffset
MaxOffset == 2

\* --------------------------------------------------------- inputs (data)

Names == {"idle", "walk"}
\* play() is also tried with a name no catalog holds
PlayNames == Names \cup {"run"}

Deltas == 0..MaxDelta
Timers == (0 - MaxOffset)..MaxOffset

\* enum AnimationSource
Files(prefix, frames) ==
    [kind |-> "Files", prefix |-> prefix, frames |-> frames]

Atlas(name, offset, step, size, frames) ==
    [kind |-> "Atlas", name |-> name, offset |-> offset, step |-> step,
     size |-> size, frames |-> frames]

Spritesheet(name, rows, columns) ==
    [kind |-> "Spritesheet", name |-> name, rows |-> rows, columns |-> columns]

\* struct Animation
Animation(name, source, looping, frame_time) ==
    [name |-> name, source |-> source, looping |-> looping,
     frame_time |-> frame_time]

\* The clips an author supplies: one-shot and looping, with several frames
\* and with a frame count of 0 (the type is i32, nothing rejects it).
Clips ==
    { [source |-> Files("f", 3), looping |-> FALSE, frame_time |-> 2],
      [source |-> Spritesheet("s", 1, 2), looping |-> TRUE, frame_time |-> 1],
      [source |-> Atlas("z", <<0, 0>>, <<16, 0>>, <<16, 16>>, 0),
       looping |-> TRUE, frame_time |-> 1],
      [source |-> Files("g", 0), looping |-> FALSE, frame_time |-> 1] }

Animations ==
    { Animation(n, c.source, c.looping, c.frame_time) : n \in Names, c \in Clips }

\* Vec<Animation> arguments, the empty one included
AnimLists == UNION { [1..n -> Animations] : n \in 0..MaxAnims }

\* Option::None
None == [none |-> TRUE]

\* Option::Some
Some(x) == [some |-> x]

\* enum ImageSizeResult, the answers of Assets::image_size
Loaded(size) == [kind |-> "Loaded", size |-> size]

LoadingInProgress == [kind |-> "LoadingInProgress"]

NotFound == [kind |-> "NotFound"]

\* the sizes a loaded texture is given: divisible by the grids used, and not
LoadedSizes == {<<128, 256>>, <<100, 50>>}

ImageSizes == {LoadingInProgress, NotFound} \cup { Loaded(size) : size \in LoadedSizes }

NoCall == [op |-> "new", name |-> "", delta |-> 0, anims |-> <<>>, was |-> ""]

\* ------------------------------------------------------ pure functions

Abs(x) == IF x < 0 THEN 0 - x ELSE x

\* the quotient rounded toward zero: `(a / b) as i32` for exact a / b, b # 0
TruncDiv(a, b) ==
    IF (a < 0) = (b < 0) THEN Abs(a) \div Abs(b) ELSE 0 - (Abs(a) \div Abs(b))

\* Rust's `a % b` on i32, b # 0: the sign follows the dividend
Rem(a, b) == a - b * TruncDiv(a, b)

\* AnimationSource::frames
frames(source) ==
    IF source.kind = "Spritesheet" THEN source.rows * source.columns
    ELSE source.frames

\* Animation::to_state
to_state(animation) ==
    [animation_name |-> animation.name,
     source |-> animation.source,
     interval |-> animation.frame_time,
     looping |-> animation.looping,
     timer |-> 0,
     current_frame |-> 0]

\* HashMap::insert
Insert(map, key, value) ==
    [k \in DOMAIN map \cup {key} |-> IF k = key THEN value ELSE map[k]]

\* `for animation in animations.into_iter() { map.insert(animation.name, animation) }`
RECURSIVE InsertAll(_, _)
InsertAll(map, list) ==
    IF list = <<>> THEN map
    ELSE InsertAll(Insert(map, Head(list).name, Head(list)), Tail(list))

EmptyMap == [k \in {} |-> None]

\* the record of a call made in the current state
Call(op, name, delta, anims) ==
    [op |-> op, name |-> name, delta |-> delta, anims |-> anims,
     was |-> IF state = None THEN "" ELSE state.animation_name]

\* ----------------------------------------------------------------- Init

\* AnimatedSpriteBuilder::new
Init ==
    /\ phase = "builder"
    /\ animations = EmptyMap
    /\ state = None
    /\ panic = "none"
    /\ call = NoCall
    /\ finished = <<>>
    /\ image_size = LoadingInProgress
    /\ drawn = <<>>
    /\ errors = {}

\* --------------------------------------------------------------- builder

\* AnimatedSpriteBuilder::with_animations
with_animations(list) ==
    /\ phase = "builder" /\ panic = "none"
    /\ IF state # None
       THEN \* the assertion fails before the list is looked at
            /\ panic' = "with_animations can only be used on a new AnimatedSpriteBuilder"
            /\ call' = Call("with_animations", "", 0, <<>>)
            /\ UNCHANGED <<state, animations>>
       ELSE IF list = <<>>
       THEN /\ panic' = "animations can't be empty"
            /\ call' = Call("with_animations", "", 0, list)
            /\ UNCHANGED <<state, animations>>
       ELSE /\ state' = to_state(Head(list))
            /\ animations' = InsertAll(animations, list)
            /\ call' = Call("with_animations", "", 0, list)
            /\ panic' = panic
    /\ UNCHANGED <<phase, finished>>
    /\ UNCHANGED resolver

\* AnimatedSpriteBuilder::add_anim
add_anim(animation) ==
    /\ phase = "builder" /\ panic = "none"
    /\ call' = Call("add_anim", animation.name, 0, <<>>)
    /\ state' = IF state = None THEN to_state(animation) ELSE state
    /\ animations' = Insert(animations, animation.name, animation)
    /\ UNCHANGED <<phase, panic, finished>>
    /\ UNCHANGED resolver

\* AnimatedSpriteBuilder::add_animation
add_animation(name, frame_time, looping, source) ==
    LET animation == Animation(name, source, looping, frame_time) IN
    /\ phase = "builder" /\ panic = "none"
    /\ call' = Call("add_animation", name, 0, <<>>)
    /\ state' = IF state = None THEN to_state(animation) ELSE state
    /\ animations' = Insert(animations, name, animation)
    /\ UNCHANGED <<phase, panic, finished>>
    /\ UNCHANGED resolver

\* mutant of with_timer: a missing state is skipped instead of expected
with_timer_lenient(timer) ==
    /\ phase = "builder" /\ panic = "none"
    /\ call' = Call("with_timer", "", timer, <<>>)
    /\ state' = IF state = None THEN state ELSE [state EXCEPT !.timer = timer]
    /\ UNCHANGED <<phase, animations, panic, finished>>
    /\ UNCHANGED resolver

\* AnimatedSpriteBuilder::with_timer
with_timer(timer) ==
    /\ phase = "builder" /\ panic = "none"
    /\ call' = Call("with_timer", "", timer, <<>>)
    /\ IF state = None
       THEN /\ panic' = "with_timer() can be only used after adding an animation"
            /\ state' = state
       ELSE /\ state' = [state EXCEPT !.timer = timer]
            /\ panic' = panic
    /\ UNCHANGED <<phase, animations, finished>>
    /\ UNCHANGED resolver

\* AnimatedSpriteBuilder::build
build ==
    /\ phase = "builder" /\ panic = "none"
    /\ call' = Call("build", "", 0, <<>>)
    /\ IF state = None
       THEN /\ panic' = "AnimatedSpriteBuilder's state must be set."
            /\ phase' = phase
       ELSE /\ phase' = "sprite"
            /\ panic' = panic
    /\ UNCHANGED <<animations, state, finished>>
    /\ UNCHANGED resolver

\* ---------------------------------------------------------------- sprite

\* mutant of play_state: the guard on the active name is missing
play_state_restart(animation_name) ==
    IF animation_name \in DOMAIN animations
    THEN to_state(animations[animation_name])
    ELSE state

\* mutant of play_state: a missing name rewinds the active animation
play_state_miss_rewinds(animation_name) ==
    IF animation_name \notin DOMAIN animations
    THEN [state EXCEPT !.timer = 0, !.current_frame = 0]
    ELSE IF animations[animation_name].name # state.animation_name
    THEN to_state(animations[animation_name])
    ELSE state

\* mutant of play_state: the switch keeps the running timer
play_state_keeps_timer(animation_name) ==
    IF /\ animation_name \in DOMAIN animations
       /\ animations[animation_name].name # state.animation_name
    THEN [to_state(animations[animation_name]) EXCEPT !.timer = state.timer]
    ELSE state

\* the value of self.state when AnimatedSprite::play returns
play_state(animation_name) ==
    IF /\ animation_name \in DOMAIN animations
       /\ animations[animation_name].name # state.animation_name
    THEN to_state(animations[animation_name])
    ELSE state

\* AnimatedSprite::play
play(animation_name) ==
    /\ phase = "sprite" /\ panic = "none"
    /\ call' = Call("play", animation_name, 0, <<>>)
    /\ state' = play_state(animation_name)
    /\ finished' = IF state' = state THEN finished ELSE <<>>
    /\ UNCHANGED <<phase, animations, panic>>
    /\ UNCHANGED resolver

\* mutant of set_animations_catalog: the first definition is not stored
set_animations_catalog_rest(list) == InsertAll(EmptyMap, Tail(list))

\* mutant of set_animations_catalog: the old catalog is not cleared
set_animations_catalog_kept(list) == InsertAll(animations, list)

\* the catalog when AnimatedSprite::set_animations returns: cleared, then filled
set_animations_catalog(list) == InsertAll(EmptyMap, list)

\* AnimatedSprite::set_animations
set_animations(list) ==
    /\ phase = "sprite" /\ panic = "none"
    /\ call' = Call("set_animations", "", 0, list)
    /\ IF list = <<>>
       THEN /\ panic' = "animations can't be empty"
            /\ UNCHANGED <<state, animations, finished>>
       ELSE /\ state' = to_state(Head(list))
            /\ animations' = set_animations_catalog(list)
            /\ finished' = <<>>
            /\ panic' = panic
    /\ phase' = phase
    /\ UNCHANGED resolver

\* `let idx = (self.timer / self.interval) as i32`
frame_index(timer, interval) == TruncDiv(timer, interval)

\* mutant of should_despawn: finished one frame late
should_despawn_late(idx, n, looping) == idx > n /\ ~looping

\* `if idx >= frames && !self.looping { should_despawn = true }`
should_despawn(idx, n, looping) == idx >= n /\ ~looping

\* mutant of next_frame: a one-shot wraps around like a looping animation
next_frame_wrap(idx, n, looping) ==
    IF n = 0 THEN n - 1 ELSE Rem(idx, n)

\* the value assigned to self.current_frame
next_frame(idx, n, looping) ==
    IF looping THEN Rem(idx, n)
    ELSE IF idx >= n THEN n - 1
    ELSE idx

\* integers up to 2^24 are f32 values; above, the f32 values thin out
F32Exact == 16777216

\* the spacing of the f32 values around the non-negative integer x
RECURSIVE Ulp(_)
Ulp(x) == IF x < F32Exact THEN 1 ELSE 2 * Ulp(x \div 2)

\* the f32 nearest to the integer x, a tie going to the even significand
F32Round(x) ==
    LET m == Abs(x)
        u == Ulp(m)
        q == m \div u
        r == m % u
        near == IF 2 * r < u THEN q * u
                ELSE IF 2 * r > u THEN (q + 1) * u
                ELSE IF q % 2 = 0 THEN q * u
                ELSE (q + 1) * u
    IN  IF x < 0 THEN 0 - near ELSE near

\* f32 addition of two integer-valued floats, as in `self.timer += delta`
F32Add(a, b) == F32Round(a + b)

\* update_and_finished is not called once the timer would exceed this;
\* playback that starts near F32Exact may run MaxTimer beyond it
TimerCap(timer) == IF timer <= MaxTimer THEN MaxTimer ELSE F32Exact + MaxTimer

\* mutant of updated: the frame index is taken from the delta alone
updated_by_delta(s, delta) ==
    LET idx == frame_index(delta, s.interval)
        n == frames(s.source)
    IN  [state |-> [s EXCEPT !.timer = F32Add(s.timer, delta),
                             !.current_frame = next_frame(idx, n, s.looping)],
         finished |-> should_despawn(idx, n, s.looping)]

\* AnimationState::update_and_finished(delta) on s where it returns: the
\* state it leaves and the value it returns
updated(s, delta) ==
    LET timer == F32Add(s.timer, delta)
        idx == frame_index(timer, s.interval)
        n == frames(s.source)
    IN  [state |-> [s EXCEPT !.timer = timer,
                             !.current_frame = next_frame(idx, n, s.looping)],
         finished |-> should_despawn(idx, n, s.looping)]

\* AnimationState::update_and_finished, called on the sprite's state
update_and_finished(delta) ==
    /\ phase = "sprite" /\ panic = "none"
    /\ F32Add(state.timer, delta) <= TimerCap(state.timer)
    /\ call' = Call("update_and_finished", "", delta, <<>>)
    /\ IF state.looping /\ frames(state.source) = 0
       THEN \* `idx % frames` panics; the timer is already written
            /\ state' = [state EXCEPT !.timer = F32Add(state.timer, delta)]
            /\ panic' = "attempt to calculate the remainder with a divisor of zero"
            /\ finished' = finished
       ELSE /\ state' = updated(state, delta).state
            /\ finished' = <<updated(state, delta).finished>>
            /\ panic' = panic
    /\ UNCHANGED <<phase, animations>>
    /\ UNCHANGED resolver

\* --------------------------------------------------------------- progress

RECURSIVE Gcd(_, _)
Gcd(a, b) == IF b = 0 THEN a ELSE Gcd(b, a % b)

Sign(x) == IF x > 0 THEN 1 ELSE IF x < 0 THEN 0 - 1 ELSE 0

\* the value of the division n / d, as the fraction in lowest terms with a
\* positive denominator; a zero divisor gives an infinity (num 1 or -1) or
\* NaN (num 0) with den 0
Quotient(n, d) ==
    IF d = 0 THEN [num |-> Sign(n), den |-> 0]
    ELSE LET g == Gcd(Abs(n), Abs(d))
         IN  [num |-> Sign(d) * Sign(n) * (Abs(n) \div g), den |-> Abs(d) \div g]

\* a variant that stops at 1
progress_clamped(s) ==
    LET whole == s.interval * frames(s.source)
    IN  IF whole > 0 /\ s.timer > whole THEN Quotient(1, 1)
        ELSE Quotient(s.timer, whole)

\* AnimationState::progress
progress(s) == Quotient(s.timer, s.interval * frames(s.source))

\* --------------------------------------------------------------- resolver

\* IVec2 + IVec2
VAdd(a, b) == <<a[1] + b[1], a[2] + b[2]>>

\* IVec2 * i32
VScale(a, k) == <<a[1] * k, a[2] * k>>

\* IVec2 * IVec2, componentwise
VMul(a, b) == <<a[1] * b[1], a[2] * b[2]>>

\* IRect::new
IRect(offset, size) == [offset |-> offset, size |-> size]

\* mutant of atlas_rect: the first frame is taken one step in
atlas_rect_one_based(source, current_frame) ==
    IRect(VAdd(source.offset, VScale(source.step, current_frame + 1)), source.size)

\* `IRect::new(offset + step * self.current_frame, size)`
atlas_rect(source, current_frame) ==
    IRect(VAdd(source.offset, VScale(source.step, current_frame)), source.size)

\* mutant of texture_size: a texture without size counts as 32 x 32
texture_size_small_fallback(answer) ==
    IF answer.kind = "Loaded" THEN answer.size ELSE <<32, 32>>

\* `match Assets::image_size(..) { Loaded(size) => size, _ => uvec2(64, 64) }`
texture_size(answer) ==
    IF answer.kind = "Loaded" THEN answer.size ELSE <<64, 64>>

\* the match arm that runs error!(): neither Loaded nor LoadingInProgress
reports_error(answer) == answer.kind \notin {"Loaded", "LoadingInProgress"}

\* mutant of spritesheet_rect: the frames are laid out column by column
spritesheet_rect_by_column(source, current_frame, image) ==
    LET size == <<TruncDiv(image[1], source.columns), TruncDiv(image[2], source.rows)>>
        row == Rem(current_frame, source.rows)
        col == TruncDiv(current_frame, source.rows)
    IN  IRect(VMul(<<col, row>>, size), size)

\* the Spritesheet arm of current_rect, for an image of the given size
spritesheet_rect(source, current_frame, image) ==
    LET size == <<TruncDiv(image[1], source.columns), TruncDiv(image[2], source.rows)>>
        row == TruncDiv(current_frame, source.columns)
        col == Rem(current_frame, source.columns)
    IN  IRect(VMul(<<col, row>>, size), size)

\* AnimationState::current_rect of state s when Assets::image_size answers `answer`
current_rect_of(s, answer) ==
    IF s.source.kind = "Files"
    THEN [texture |-> s.source.prefix \o ToString(s.current_frame),
          source_rect |-> None]
    ELSE IF s.source.kind = "Atlas"
    THEN [texture |-> s.source.name,
          source_rect |-> Some(atlas_rect(s.source, s.current_frame))]
    ELSE [texture |-> s.source.name,
          source_rect |-> Some(spritesheet_rect(s.source, s.current_frame,
                                                texture_size(answer)))]

\* mutant of current_rect_now: the first result is kept and handed out again
current_rect_cached ==
    IF drawn # <<>> /\ drawn[1].texture = current_rect_of(state, image_size).texture
    THEN [current_rect_of(state, image_size) EXCEPT
             !.source_rect = IF state.source.kind = "Spritesheet"
                             THEN Some(spritesheet_rect(state.source, state.current_frame,
                                        VMul(drawn[1].source_rect.some.size,
                                             <<state.source.columns, state.source.rows>>)))
                             ELSE @]
    ELSE current_rect_of(state, image_size)

\* what self.state.current_rect() returns now
current_rect_now == current_rect_of(state, image_size)

\* ToQuadDraw::to_quad_draw: the sprite's state is resolved for drawing
current_rect ==
    /\ phase = "sprite" /\ panic = "none"
    /\ call' = Call("current_rect", "", 0, <<>>)
    /\ drawn' = IF drawn = <<>> THEN <<current_rect_now>>
                ELSE <<current_rect_now, drawn[1]>>
    /\ errors' = IF state.source.kind = "Spritesheet" /\ reports_error(image_size)
                 THEN errors \cup {state.source.name}
                 ELSE errors
    /\ UNCHANGED <<phase, animations, state, panic, finished, image_size>>

\* the texture size provider changes its answer: the texture is loaded, or lost
image_size_changes(answer) ==
    /\ phase = "sprite" /\ panic = "none"
    /\ answer # image_size
    /\ image_size' = answer
    /\ call' = Call("image_size", "", 0, <<>>)
    /\ UNCHANGED <<phase, animations, state, panic, finished, drawn, errors>>

\* the sources the resolver is given
AtlasOffsets == {<<0, 0>>, <<1, 2>>}

AtlasSteps == {<<16, 0>>, <<3, -5>>}

ResolveClips ==
    { [source |-> Atlas("a", o, st, <<16, 16>>, 4), looping |-> TRUE, frame_time |-> 1] :
          o \in AtlasOffsets, st \in AtlasSteps }
    \cup
    { [source |-> Spritesheet("s", 4, 2), looping |-> TRUE, frame_time |-> 1],
      [source |-> Spritesheet("t", 2, 3), looping |-> FALSE, frame_time |-> 1],
      [source |-> Files("f", 3), looping |-> FALSE, frame_time |-> 2] }

\* a sprite built from one clip, `AnimatedSpriteBuilder::new().add_anim(a).build()`,
\* and a texture size provider in any of its answers
ResolveInit ==
    \E c \in ResolveClips, answer \in ImageSizes :
        LET a == Animation("idle", c.source, c.looping, c.frame_time) IN
        /\ phase = "sprite"
        /\ animations = Insert(EmptyMap, a.name, a)
        /\ state = to_state(a)
        /\ panic = "none"
        /\ call = NoCall
        /\ finished = <<>>
        /\ image_size = answer
        /\ drawn = <<>>
        /\ errors = {}

\* the render loop: tick, resolve, while textures load
ResolveNext ==
    \/ \E delta \in Deltas : update_and_finished(delta)
    \/ current_rect
    \/ \E answer \in ImageSizes : image_size_changes(answer)

ResolveSpec == ResolveInit /\ [][ResolveNext]_vars

\* ------------------------------------------------- long-running playback

\* the timers playback starts from: fresh ones, and ones at the edge of the
\* exact f32 integers
SplitTimers == (0..MaxOffset) \cup ((F32Exact - MaxOffset)..F32Exact)

\* the animations played for long: those with at least one frame
SplitClips == { c \in Clips \cup ResolveClips : frames(c.source) >= 1 }

\* a sprite built from one animation, with_timer(timer) applied
SplitInit ==
    \E c \in SplitClips, timer \in SplitTimers :
        LET a == Animation("idle", c.source, c.looping, c.frame_time) IN
        /\ phase = "sprite"
        /\ animations = Insert(EmptyMap, a.name, a)
        /\ state = [to_state(a) EXCEPT !.timer = timer]
        /\ panic = "none"
        /\ call = [op |-> "build", name |-> "", delta |-> 0, anims |-> <<>>,
                   was |-> a.name]
        /\ finished = <<>>
        /\ image_size = LoadingInProgress
        /\ drawn = <<>>
        /\ errors = {}

SplitNext == \E delta \in Deltas : update_and_finished(delta)

SplitSpec == SplitInit /\ [][SplitNext]_vars

\* ----------------------------------------------------------------- Next

Next ==
    \/ \E list \in AnimLists : with_animations(list)
    \/ \E animation \in Animations : add_anim(animation)
    \/ \E animation \in Animations :
          add_animation(animation.name, animation.frame_time,
                        animation.looping, animation.source)
    \/ \E timer \in Timers : with_timer(timer)
    \/ build
    \/ \E name \in PlayNames : play(name)
    \/ \E list \in AnimLists : set_animations(list)
    \/ \E delta \in Deltas : update_and_finished(delta)

Spec == Init /\ [][Next]_vars

\* ------------------------------------------------------- properties

\* the active state was advanced by update_and_finished, which returned
Ticked == phase = "sprite" /\ panic = "none" /\ call.op = "update_and_finished"

\* a playable sprite whose active animation has at least one frame
Playing(looping) ==
    /\ phase = "sprite"
    /\ state.looping = looping
    /\ frames(state.source) >= 1
    /\ state.interval > 0

\* C1: for a one-shot animation with N >= 1 frames and interval I > 0,
\* update_and_finished returns true exactly when the timer it leaves is
\* >= N * I (so the first true comes with the first call that reaches
\* N * I); whenever it returned true current_frame is N - 1, and
\* current_frame never exceeds N - 1.
C1_OneShotFinishesAtNI ==
    Playing(FALSE) =>
        /\ state.current_frame <= frames(state.source) - 1
        /\ finished # <<>> =>
              /\ finished[1] <=>
                    state.timer >= frames(state.source) * state.interval
              /\ finished[1] => state.current_frame = frames(state.source) - 1

\* C1 witness: one call took a fresh 3-frame one-shot from frame 0 past
\* frames 1 and 2 to N * I, and reported finished
C1_Witness ==
    /\ Ticked /\ Playing(FALSE)
    /\ frames(state.source) = 3
    /\ state.timer = call.delta
    /\ state.timer >= frames(state.source) * state.interval
    /\ finished = <<TRUE>>
    /\ state.current_frame = 2

\* C2: for a looping animation with N >= 1 frames and interval I > 0,
\* after every update_and_finished call current_frame is
\* floor(timer / I) mod N for the timer the call leaves.
C2_LoopingFrameIsFloorMod ==
    (Ticked /\ Playing(TRUE)) =>
        state.current_frame =
            (state.timer \div state.interval) % frames(state.source)

\* C3: in every state of a sprite, update_and_finished(0) changes neither
\* current_frame nor timer, and returns what the preceding
\* update_and_finished call on this state returned, when there was one.
\* Stated for the sprites whose active animation has at least one frame and
\* whose timer is not negative, so that a violation is one of a zero delta
\* alone and not of a frame count of 0 (C10) or of a negative timer (C2).
C3_ZeroDeltaIsNoOp ==
    [][(/\ call'.op = "update_and_finished" /\ call'.delta = 0 /\ panic' = "none"
        /\ frames(state.source) >= 1 /\ state.timer >= 0) =>
          /\ state'.current_frame = state.current_frame
          /\ state'.timer = state.timer
          /\ finished # <<>> => finished' = finished]_vars

\* the state Animation::to_state is specified to derive from a definition
Fresh(animation) ==
    [animation_name |-> animation.name, source |-> animation.source,
     interval |-> animation.frame_time, looping |-> animation.looping,
     timer |-> 0, current_frame |-> 0]

\* C4: play(name) with the name of the active animation changes nothing:
\* the active state (timer, current_frame, source, interval, looping,
\* animation_name) and the catalog stay as they are.
C4_PlayActiveIsNoOp ==
    [][(call'.op = "play" /\ call'.name = state.animation_name) =>
          /\ state' = state
          /\ animations' = animations
          /\ finished' = finished]_vars

\* C4 witness: the active one-shot was replayed by name after it had
\* finished, and its timer is still running
C4_Witness ==
    /\ phase = "sprite" /\ call.op = "play"
    /\ call.name = state.animation_name /\ call.was = call.name
    /\ call.name \in DOMAIN animations
    /\ finished = <<TRUE>>
    /\ state.timer > 0 /\ state.current_frame > 0

\* C5: play(name) with a name that is no key of the catalog leaves the
\* active state and the catalog as they are and raises no error.
C5_PlayUnknownIsNoOp ==
    [][(call'.op = "play" /\ call'.name \notin DOMAIN animations) =>
          /\ state' = state
          /\ animations' = animations
          /\ finished' = finished
          /\ panic' = "none"]_vars

\* C5 witness: an unknown name was played while an animation was under way
C5_Witness ==
    /\ phase = "sprite" /\ call.op = "play" /\ panic = "none"
    /\ call.name \notin DOMAIN animations
    /\ state.timer > 0 /\ state.current_frame > 0

\* C6: play(target) with a target of the catalog other than the active name
\* replaces the active state by the fresh state of the target definition
\* (name, source, frame_time as interval, looping, timer 0, current_frame 0),
\* carries over no finished result, and leaves the catalog as it is.
C6_PlayOtherReplacesState ==
    [][(/\ call'.op = "play"
        /\ call'.name \in DOMAIN animations
        /\ call'.name # state.animation_name) =>
          /\ state' = Fresh(animations[call'.name])
          /\ state'.animation_name = call'.name
          /\ finished' = <<>>
          /\ animations' = animations]_vars

\* C6 witness: play switched from "idle" to "walk", a looping animation
\* with another source, and the state is the fresh state of "walk"
C6_Witness ==
    /\ phase = "sprite" /\ call.op = "play"
    /\ call.was = "idle" /\ call.name = "walk"
    /\ state.animation_name = "walk"
    /\ state.looping /\ state.source # animations["idle"].source
    /\ state.timer = 0 /\ state.current_frame = 0 /\ finished = <<>>

\* the names of the definitions of a list
NamesOf(list) == { list[i].name : i \in 1..Len(list) }

\* C7: set_animations(list) with a non-empty list leaves the fresh state of
\* the first definition of the list, whatever was active, and a catalog
\* whose keys are exactly the names of the list.
C7_SetAnimationsIsHardReset ==
    [][(call'.op = "set_animations" /\ call'.anims # <<>>) =>
          /\ state' = Fresh(call'.anims[1])
          /\ finished' = <<>>
          /\ DOMAIN animations' = NamesOf(call'.anims)
          /\ panic' = "none"]_vars

\* C7 witness: set_animations was handed one definition named like the
\* active animation; the state is fresh and the catalog holds that name only
C7_Witness ==
    /\ phase = "sprite" /\ call.op = "set_animations" /\ panic = "none"
    /\ Len(call.anims) = 1
    /\ call.was = "walk" /\ call.anims[1].name = "walk"
    /\ DOMAIN animations = {"walk"}
    /\ state.animation_name = "walk" /\ state.timer = 0

\* C8: an operation that needs an initial playing state panics when there
\* is none: set_animations([]) and with_animations([]), build() and
\* with_timer() on a builder without animation; a sprite always has an
\* active state; set_animations([]) has changed neither the active state
\* nor the catalog when it panics.
C8_FailFastWithoutState ==
    [][/\ (call'.op = "set_animations" /\ call'.anims = <<>>) =>
              /\ panic' = "animations can't be empty"
              /\ state' = state
              /\ animations' = animations
       /\ (call'.op = "with_animations" /\ call'.anims = <<>>) => panic' # "none"
       /\ (call'.op = "build" /\ state = None) =>
              (panic' # "none" /\ phase' = "builder")
       /\ (call'.op = "with_timer" /\ state = None) => panic' # "none"
       /\ phase' = "sprite" => state' # None]_vars

\* C8 witness: set_animations([]) panicked on a sprite that was playing
C8_Witness ==
    /\ phase = "sprite" /\ call.op = "set_animations"
    /\ panic = "animations can't be empty"
    /\ state # None /\ state.timer > 0
    /\ DOMAIN animations # {}

\* C9: once update_and_finished has returned true for a one-shot state,
\* every later call on that state returns true and leaves current_frame at
\* N - 1; a call that returns true has added its delta to the timer and
\* has not changed looping.
C9_FinishedIsAbsorbing ==
    [][call'.op = "update_and_finished" =>
          /\ (finished = <<TRUE>> /\ ~state.looping) =>
                /\ finished' = <<TRUE>>
                /\ state'.current_frame = frames(state.source) - 1
          /\ finished' = <<TRUE>> =>
                /\ state'.timer = state.timer + call'.delta
                /\ state'.looping = state.looping]_vars

\* C9 witness: a finished 3-frame one-shot was advanced again, past N * I
C9_Witness ==
    /\ Ticked /\ Playing(FALSE)
    /\ frames(state.source) = 3
    /\ finished = <<TRUE>>
    /\ call.delta > 0
    /\ state.timer - call.delta >= frames(state.source) * state.interval
    /\ state.current_frame = 2

\* C10: every frame source of the catalog and of the active state has
\* frames() >= 1, so update_and_finished meets no remainder by zero and
\* leaves no current_frame of -1.
C10_FrameCountAtLeastOne ==
    /\ \A k \in DOMAIN animations : frames(animations[k].source) >= 1
    /\ state # None => frames(state.source) >= 1
    /\ panic # "attempt to calculate the remainder with a divisor of zero"

\* ----------------------------------------- properties of the resolver

\* current_rect has just returned drawn[1] for the active state
Resolved(kind) ==
    /\ call.op = "current_rect"
    /\ state.source.kind = kind

\* the cell of frame f in a grid of R rows and C columns cut from a W x H image
GridRect(R, C, W, H, f) ==
    [offset |-> <<(f % C) * (W \div C), (f \div C) * (H \div R)>>,
     size |-> <<W \div C, H \div R>>]

\* C11: for an Atlas source current_rect returns the atlas texture name and
\* the rectangle of origin offset + step * current_frame and size
\* cell_size, whatever the texture size provider answers.
C11_AtlasRectIsArithmetic ==
    Resolved("Atlas") =>
        /\ state.current_frame \in 0..(state.source.frames - 1)
        /\ drawn[1].texture = state.source.name
        /\ drawn[1].source_rect =
             [some |-> [offset |-> <<state.source.offset[1]
                                       + state.source.step[1] * state.current_frame,
                                     state.source.offset[2]
                                       + state.source.step[2] * state.current_frame>>,
                        size |-> state.source.size]]

\* C11 witness: offset (0,0), step (16,0), size (16,16), frame 3 gave
\* origin (48,0), size (16,16), while the texture size was not found
C11_Witness ==
    /\ Resolved("Atlas")
    /\ state.source.offset = <<0, 0>> /\ state.source.step = <<16, 0>>
    /\ state.source.size = <<16, 16>> /\ state.current_frame = 3
    /\ image_size = NotFound
    /\ drawn[1].source_rect = [some |-> [offset |-> <<48, 0>>, size |-> <<16, 16>>]]

\* C12: for a Spritesheet source of R rows and C columns whose texture size
\* is Loaded(W, H), current_rect returns the rectangle of size
\* (floor(W / C), floor(H / R)) and origin (current_frame mod C,
\* floor(current_frame / C)) times that size.
C12_SpritesheetRectFromLoadedSize ==
    (Resolved("Spritesheet") /\ image_size.kind = "Loaded") =>
        /\ state.current_frame \in 0..(state.source.rows * state.source.columns - 1)
        /\ drawn[1].texture = state.source.name
        /\ drawn[1].source_rect =
             [some |-> GridRect(state.source.rows, state.source.columns,
                                image_size.size[1], image_size.size[2],
                                state.current_frame)]

\* C12 witness: rows 4, columns 2, a loaded 128 x 256 texture and frame 5
\* gave origin (64,128), size (64,64)
C12_Witness ==
    /\ Resolved("Spritesheet")
    /\ state.source.rows = 4 /\ state.source.columns = 2
    /\ image_size = Loaded(<<128, 256>>)
    /\ state.current_frame = 5
    /\ drawn[1].source_rect = [some |-> [offset |-> <<64, 128>>, size |-> <<64, 64>>]]

\* C13: for a Spritesheet source whose texture size is LoadingInProgress or
\* NotFound, current_rect returns, without a panic, the rectangle of a
\* loaded 64 x 64 texture; NotFound is reported to the log, and the
\* rectangle is the same with and without the report.
C13_SpritesheetFallsBackTo64 ==
    (Resolved("Spritesheet") /\ image_size.kind # "Loaded") =>
        /\ panic = "none"
        /\ drawn[1].texture = state.source.name
        /\ drawn[1].source_rect =
             [some |-> GridRect(state.source.rows, state.source.columns,
                                64, 64, state.current_frame)]
        /\ image_size = NotFound => state.source.name \in errors

\* C13 witness: the size of the 4 x 2 sheet was not found at frame 5; the
\* rectangle is the 32 x 16 cell of a 64 x 64 texture and the name is logged
C13_Witness ==
    /\ Resolved("Spritesheet")
    /\ state.source.rows = 4 /\ state.source.columns = 2
    /\ image_size = NotFound
    /\ state.current_frame = 5
    /\ drawn[1].source_rect = [some |-> [offset |-> <<32, 32>>, size |-> <<32, 16>>]]
    /\ errors = {"s"}

\* C17: nothing is cached. Every call of current_rect on a Spritesheet
\* source answers from what the provider says during that call, a first
\* call after the size became Loaded(W, H) included, and the call leaves
\* the playback state, the catalog and the provider alone.
C17_CurrentRectAsksEveryCall ==
    [][ (call'.op = "current_rect" /\ state.source.kind = "Spritesheet") =>
          /\ state' = state
          /\ animations' = animations
          /\ finished' = finished
          /\ image_size' = image_size
          /\ drawn'[1].source_rect =
               [some |-> GridRect(state.source.rows, state.source.columns,
                                  IF image_size.kind = "Loaded"
                                      THEN image_size.size[1] ELSE 64,
                                  IF image_size.kind = "Loaded"
                                      THEN image_size.size[2] ELSE 64,
                                  state.current_frame)] ]_vars

\* C17 witness: two calls in a row at frame 5 of the 4 x 2 sheet; the
\* earlier one fell back to 64 x 64, the later one, the first after the
\* size became Loaded(128, 256), answers from the loaded size
C17_Witness ==
    /\ Resolved("Spritesheet")
    /\ state.source.rows = 4 /\ state.source.columns = 2
    /\ state.current_frame = 5
    /\ image_size = Loaded(<<128, 256>>)
    /\ Len(drawn) = 2
    /\ drawn[2].source_rect = [some |-> [offset |-> <<32, 32>>, size |-> <<32, 16>>]]
    /\ drawn[1].source_rect = [some |-> [offset |-> <<64, 128>>, size |-> <<64, 64>>]]

\* ----------------------------------------------------- properties, part 2

\* C14: progress() is timer / (interval * frame_count) in every state of a
\* sprite (frame count N >= 1) and is not clamped: at timer = 1.5 * N * I it
\* is 1.5, and every update_and_finished with a positive delta makes it
\* larger, below and above 1 alike.
C14_ProgressIsUnclamped ==
    [][ (phase' = "sprite" /\ frames(state'.source) >= 1) =>
          LET N == frames(state'.source)
              I == state'.interval
              p == progress(state')
          IN  /\ p.den > 0
              /\ p.num * (I * N) = state'.timer * p.den
              /\ 2 * state'.timer = 3 * N * I => (p.num = 3 /\ p.den = 2)
              /\ (Ticked' /\ call'.delta > 0) =>
                     p.num * progress(state).den > progress(state).num * p.den ]_vars

\* C14 witness: the one-shot Files clip of 3 frames, 2 per frame, has
\* reported finished, stands at timer 9 = 1.5 * 3 * 2, and progress is 3/2
C14_Witness ==
    /\ Ticked /\ Playing(FALSE)
    /\ frames(state.source) = 3 /\ state.interval = 2
    /\ state.timer = 9
    /\ finished = <<TRUE>>
    /\ progress(state) = [num |-> 3, den |-> 2]

\* C15: in every state of a sprite whose active source has N >= 1 frames,
\* reached with non-negative deltas, 0 <= current_frame <= N - 1: a Files
\* source names only the textures prefix0 .. prefix(N-1), and the row of a
\* Spritesheet frame is below rows.
C15_FrameIndexInRange ==
    (phase = "sprite" /\ panic = "none" /\ frames(state.source) >= 1) =>
        /\ state.current_frame \in 0..(frames(state.source) - 1)
        /\ state.source.kind = "Files" =>
               current_rect_of(state, image_size).texture \in
                   { state.source.prefix \o ToString(i) :
                         i \in 0..(state.source.frames - 1) }
        /\ state.source.kind = "Spritesheet" =>
               TruncDiv(state.current_frame, state.source.columns)
                   \in 0..(state.source.rows - 1)

\* C16: a built sprite always has a non-empty catalog, and the name of its
\* active state is a key of that catalog, after every play, set_animations
\* and update_and_finished.
C16_ActiveNameIsInCatalog ==
    (phase = "sprite" /\ panic = "none") =>
        /\ DOMAIN animations # {}
        /\ state.animation_name \in DOMAIN animations
        /\ animations[state.animation_name].name = state.animation_name

\* C16 witness: set_animations has removed the name that was active, and
\* the new active name is a key of the new catalog
C16_Witness ==
    /\ phase = "sprite" /\ panic = "none"
    /\ call.op = "set_animations"
    /\ call.was \notin DOMAIN animations
    /\ state.animation_name \in DOMAIN animations

\* C18: a looping animation never finishes: every update_and_finished call
\* on a state with looping = true returns false, whatever the timer has
\* grown to.
C18_LoopingNeverFinishes ==
    [][ (call'.op = "update_and_finished" /\ state.looping) =>
          /\ panic' = "none"
          /\ finished' = <<FALSE>> ]_vars

\* C19: whenever there is an active state, in the builder and in the
\* sprite, its source, interval and looping are the source, frame_time and
\* looping of the catalog definition stored under its animation_name, also
\* after two definitions with one name were supplied.
C19_StateAgreesWithCatalog ==
    (state # None /\ panic = "none") =>
        /\ state.animation_name \in DOMAIN animations
        /\ animations[state.animation_name].source = state.source
        /\ animations[state.animation_name].frame_time = state.interval
        /\ animations[state.animation_name].looping = state.looping

\* update_and_finished(call'.delta) has just returned
Returned == call'.op = "update_and_finished" /\ panic' = "none"

\* the step changed nothing but timer and current_frame
OnlyTimerAndFrame ==
    /\ state'.animation_name = state.animation_name
    /\ state'.source = state.source
    /\ state'.interval = state.interval
    /\ state'.looping = state.looping
    /\ animations' = animations

\* the state and return value after a further update_and_finished(d2) are
\* those of the single call update_and_finished(d1 + d2) instead of the
\* call update_and_finished(d1) just made
SameAsOneCall(d2) ==
    LET two == updated(state', d2)
        one == updated(state, F32Add(call'.delta, d2))
    IN  /\ two.state.timer = one.state.timer
        /\ two.state.current_frame = one.state.current_frame
        /\ two.finished = one.finished

\* none of the f32 additions involved rounds
ExactSums(d2) ==
    /\ F32Add(state.timer, call'.delta) = state.timer + call'.delta
    /\ F32Add(state'.timer, d2) = state'.timer + d2
    /\ F32Add(call'.delta, d2) = call'.delta + d2
    /\ F32Add(state.timer, call'.delta + d2) = state.timer + call'.delta + d2

\* C20 as stated: update_and_finished(d1) then update_and_finished(d2)
\* leaves the same timer and current_frame, and returns the same value, as
\* update_and_finished(d1 + d2) from the same state, for all non-negative
\* d1 and d2; and an update changes only timer and current_frame.
C20_SplitIndependent ==
    [][ Returned => /\ OnlyTimerAndFrame
                    /\ \A d2 \in Deltas : SameAsOneCall(d2) ]_vars

\* C20 amended: the split and the single call agree whenever the f32
\* additions of the timer and the deltas are exact; an update changes only
\* timer and current_frame in every case.
C20_SplitIndependentWhenExact ==
    [][ Returned => /\ OnlyTimerAndFrame
                    /\ \A d2 \in Deltas : ExactSums(d2) => SameAsOneCall(d2) ]_vars

\* C20 witness: the one-shot of 3 frames, 2 per frame, went from timer 2 to
\* timer 3 (frame 1) with delta 1; delta 3 more finishes it at timer 6 on
\* frame 2, which is what delta 4 does from timer 2
C20_Witness ==
    /\ Ticked /\ Playing(FALSE)
    /\ frames(state.source) = 3 /\ state.interval = 2
    /\ call.delta = 1 /\ state.timer = 3 /\ state.current_frame = 1
    /\ finished = <<FALSE>>
    /\ updated(state, 3) = updated([state EXCEPT !.timer = 2], 4)
    /\ updated(state, 3).finished
    /\ updated(state, 3).state.current_frame = 2

====
